---------------------------- MODULE Spec2Model ----------------------------
(***************************************************************************)
(* Model of the water-sensor ingestion server (src/server.js).             *)
(*                                                                         *)
(* Node.js runs each request handler on one thread: a handler runs without *)
(* interruption up to its next `await`, and the code after an `await` runs *)
(* as one uninterrupted step when the awaited HTTP call settles.  So every *)
(* action below is either the synchronous head of a handler or the         *)
(* continuation that runs when one awaited call resolves (ok = TRUE) or    *)
(* rejects (ok = FALSE).  Several handlers may be suspended at an `await`  *)
(* at the same time; each occupies one slot of `proc`.                     *)
(*                                                                         *)
(* Numbers.  A JavaScript number is modelled as a fixed-point integer with *)
(* five decimals (the value times Scale), which holds every sensor value,  *)
(* threshold and coordinate used here exactly.  NaN, +-Infinity and null   *)
(* are integers outside the finite range; the code never compares NaN or   *)
(* null with < or > (it tests isNaN / !== null / truthiness first).        *)
(* A query-string value is a sequence of tokens: one token per character,  *)
(* except that the words "Infinity" and "undefined" are one token each.    *)
(* An absent parameter is the JavaScript value undefined, which parseFloat *)
(* converts to the string "undefined".                                     *)
(*                                                                         *)
(* Time is Date.now() in milliseconds, counted from a model epoch.         *)
(* Messages and durable-store bodies carry the entry itself: the JSON      *)
(* encoding on the wire is not modelled.                                   *)
(***************************************************************************)
EXTENDS Integers, Sequences, FiniteSets, TLC

VARIABLES
  clock,          \* Date.now()
  history,        \* server.js:23   let history = []
  lastAlertTime,  \* server.js:24   let lastAlertTime = 0
  csvRows,        \* number of rows appended to data.csv (server.js:134)
  db,             \* the durable store: devices/<id>/{latest,history,pins}
  nextKey,        \* the next push key the durable store hands out for a pin
  clients,        \* wss.clients: each subscriber's readyState and what it received
  proc,           \* the request handlers in flight, one per slot
  resp,           \* the HTTP response sent last: the slot it answers and its status
  nSeq,           \* how many Readings have been created (gives each its identity)
  accepted,       \* history variable: the entries pushed since the last clear
  alerts,         \* history variable: the alert sends started, oldest first
  deletes         \* history variable: the DELETE calls requested, confirmed and failed

vars == << clock, history, lastAlertTime, csvRows, db, nextKey, clients, proc,
           resp, nSeq, accepted, alerts, deletes >>

---------------------------------------------------------------------------
(* Numbers *)

Scale == 10 ^ 5
Infinity == 2 ^ 30
NaN == 0 - (2 ^ 30) - 1
Null == 0 - (2 ^ 30) - 2

isNaN(x) == x = NaN

\* JavaScript truthiness of a value that is a number or null: !x
Falsy(x) == x = 0 \/ x = NaN \/ x = Null

DigitVal ==
  [c \in {"0", "1", "2", "3", "4", "5", "6", "7", "8", "9"} |->
     CASE c = "0" -> 0 [] c = "1" -> 1 [] c = "2" -> 2 [] c = "3" -> 3
       [] c = "4" -> 4 [] c = "5" -> 5 [] c = "6" -> 6 [] c = "7" -> 7
       [] c = "8" -> 8 [] c = "9" -> 9]

IsDigit(c) == c \in DOMAIN DigitVal

\* The length of the longest run of digits of s that starts at position i.
RECURSIVE DigitRun(_, _)
DigitRun(s, i) ==
  IF i <= Len(s) /\ IsDigit(s[i]) THEN 1 + DigitRun(s, i + 1) ELSE 0

\* The integer written by the n digits of s from position i.
RECURSIVE IntOf(_, _, _)
IntOf(s, i, n) ==
  IF n = 0 THEN 0 ELSE IntOf(s, i, n - 1) * 10 + DigitVal[s[i + n - 1]]

\* The fraction written by the n digits of s from position i, times Scale
\* (digits beyond the fifth are below the model's resolution).
RECURSIVE FracOf(_, _, _)
FracOf(s, i, n) ==
  IF n = 0 THEN 0
  ELSE FracOf(s, i, n - 1)
         + (IF n <= 5 THEN DigitVal[s[i + n - 1]] * (10 ^ (5 - n)) ELSE 0)

Undefined == << "undefined" >>

(* parseFloat: an optional sign, then "Infinity" or the longest prefix that *)
(* is a decimal literal; whatever follows the prefix is ignored; NaN when  *)
(* there is no such prefix.  (Leading blanks and exponents are not in the  *)
(* model's alphabet.)                                                      *)
parseFloat(s) ==
  LET signed == Len(s) >= 1 /\ s[1] \in {"+", "-"}
      sg == IF Len(s) >= 1 /\ s[1] = "-" THEN 0 - 1 ELSE 1
      b == IF signed THEN 2 ELSE 1
      ni == DigitRun(s, b)
      hasDot == b + ni <= Len(s) /\ s[b + ni] = "."
      nf == IF hasDot THEN DigitRun(s, b + ni + 1) ELSE 0
  IN  IF b <= Len(s) /\ s[b] = "Infinity" THEN sg * Infinity
      ELSE IF ni = 0 /\ nf = 0 THEN NaN
      ELSE sg * (IntOf(s, b, ni) * Scale + FracOf(s, b + ni + 1, nf))

---------------------------------------------------------------------------
(* Configuration and policy constants *)

RESET_PASSWORD == "LDCHEMICAL"

ALERT_COOLDOWN == 2 * 60 * 1000

HISTORY_MAX == 50

PROXIMITY_M == 25

DefaultId == "device1"

\* req.query.id || "device1": an absent or empty id is falsy
ScopeOf(rawId) == IF rawId = "" THEN DefaultId ELSE rawId

---------------------------------------------------------------------------
(* Classifier *)

\* A classifier whose tds test includes the threshold (>= for >)
StatusOf_TdsInclusive(phVal, tdsVal, tempVal, turbVal) ==
  IF \/ phVal < (65 * Scale) \div 10
     \/ phVal > (85 * Scale) \div 10
     \/ tdsVal >= 500 * Scale
     \/ tempVal > 35 * Scale
     \/ turbVal > 10 * Scale
  THEN "UNSAFE"
  ELSE "SAFE"

StatusOf(phVal, tdsVal, tempVal, turbVal) ==
  IF \/ phVal < (65 * Scale) \div 10
     \/ phVal > (85 * Scale) \div 10
     \/ tdsVal > 500 * Scale
     \/ tempVal > 35 * Scale
     \/ turbVal > 10 * Scale
  THEN "UNSAFE"
  ELSE "SAFE"

InvalidSensor(phVal, tdsVal, tempVal, turbVal) ==
  isNaN(phVal) \/ isNaN(tdsVal) \/ isNaN(tempVal) \/ isNaN(turbVal)

\* The entry object built from a request q at time t; seq is the object's identity.
MakeEntry(q, t, n) ==
  LET phVal == parseFloat(q.pH)
      tdsVal == parseFloat(q.tds)
      tempVal == parseFloat(q.temp)
      turbVal == parseFloat(q.turb)
      lat == parseFloat(q.lat)
      lng == parseFloat(q.lng)
  IN  [ seq |-> n, ts |-> t, pH |-> phVal, tds |-> tdsVal, temp |-> tempVal,
        turb |-> turbVal,
        status |-> StatusOf(phVal, tdsVal, tempVal, turbVal),
        lat |-> IF isNaN(lat) THEN Null ELSE lat,
        lng |-> IF isNaN(lng) THEN Null ELSE lng ]

---------------------------------------------------------------------------
(* History cache *)

\* A history that drops the entry just pushed instead of the oldest (pop for shift)
PushShift_Pop(h, e) ==
  LET pushed == Append(h, e)
  IN  IF Len(pushed) > HISTORY_MAX THEN SubSeq(pushed, 1, HISTORY_MAX) ELSE pushed

\* history.push(entry); if (history.length > 50) history.shift();
PushShift(h, e) ==
  LET pushed == Append(h, e)
  IN  IF Len(pushed) > HISTORY_MAX THEN Tail(pushed) ELSE pushed

\* GET /snapshot: {} when the history is empty, else its last entry
Snapshot(h) == IF Len(h) = 0 THEN << >> ELSE << h[Len(h)] >>

\* GET /snapshot?id=<rawId>: the handler does not read req.query, so the
\* answer for every scope is the one of the process-wide history
SnapshotFor(rawId, h) == Snapshot(h)

---------------------------------------------------------------------------
(* Pin index *)

\* The largest r with r * r <= x, for 0 <= x < 2^31, by bisection of lo..hi.
RECURSIVE IsqrtIn(_, _, _)
IsqrtIn(x, lo, hi) ==
  IF hi - lo <= 1 THEN lo
  ELSE LET mid == (lo + hi) \div 2
       IN  IF mid * mid <= x THEN IsqrtIn(x, mid, hi) ELSE IsqrtIn(x, lo, mid)

Isqrt(x) == IsqrtIn(x, 0, 46341)

(* distanceMeters, in millimetres.  Coordinates are degrees times Scale.   *)
(* All coordinates of the model lie within 0.001 degree of (0, 0), where   *)
(* cos(lat) is 1 to nine decimals and the haversine distance equals        *)
(* R * sqrt(dLat^2 + dLon^2) (angles in radians) to well below 1 mm.  One  *)
(* unit of 0.00001 degree is 6371000 * pi / 180 * 0.00001 m = 1111.949 mm. *)
(* Distinct squared offsets below 2000 units give distinct results, so the *)
(* order of two distances and their comparison with 25 m are the code's.   *)
MmPerUnit == 1112

distanceMeters(lat1, lon1, lat2, lon2) ==
  LET dLat == lat2 - lat1
      dLon == lon2 - lon1
  IN  (Isqrt((dLat * dLat + dLon * dLon) * 1000000) * MmPerUnit) \div 1000

(* The scan of server.js:157-170 over the pins of a scope, in key order:   *)
(* a pin whose lat or lng is falsy is skipped; a strictly smaller distance *)
(* replaces the nearest so far.  The result is [id, dist]; id = 0 is the   *)
(* code's nearestPinId = null and dist = Infinity its nearestDist.         *)
RECURSIVE NearestFrom(_, _, _, _)
NearestFrom(e, pins, i, best) ==
  IF i > Len(pins) THEN best
  ELSE LET p == pins[i].e
       IN  IF Falsy(p.lat) \/ Falsy(p.lng)
           THEN NearestFrom(e, pins, i + 1, best)
           ELSE LET dist == distanceMeters(e.lat, e.lng, p.lat, p.lng)
                IN  IF dist < best.dist
                    THEN NearestFrom(e, pins, i + 1,
                                     [id |-> pins[i].id, dist |-> dist])
                    ELSE NearestFrom(e, pins, i + 1, best)

Nearest(e, pins) == NearestFrom(e, pins, 1, [id |-> 0, dist |-> Infinity])

\* if (nearestPinId && nearestDist <= 25): patch that pin, else post a new one
MatchesPin(near) == near.id # 0 /\ near.dist <= PROXIMITY_M * 1000

\* PATCH devices/<id>/pins/<pinId>: the entry's fields replace the pin's; a
\* pin that is no longer stored is created under that key, in key order.
RECURSIVE PatchPin(_, _, _)
PatchPin(pins, pinId, e) ==
  IF pins = << >> THEN << [id |-> pinId, e |-> e] >>
  ELSE IF pins[1].id = pinId THEN << [id |-> pinId, e |-> e] >> \o Tail(pins)
  ELSE IF pins[1].id > pinId THEN << [id |-> pinId, e |-> e] >> \o pins
  ELSE << pins[1] >> \o PatchPin(Tail(pins), pinId, e)

\* POST devices/<id>/pins: a new pin under a fresh key, after all older keys
PostPin(pins, key, e) == Append(pins, [id |-> key, e |-> e])

---------------------------------------------------------------------------
(* State *)

Idle == [pc |-> "idle"]

EmptyDevice == [latest |-> << >>, history |-> << >>, pins |-> << >>]

\* The process clock starts later than one cooldown after the epoch, as
\* Date.now() does: the first comparison against lastAlertTime = 0 passes.
StartTime == 1000 * 1000

\* A broadcast that sends to every client that ever connected, open or not
Broadcast_All(cl, msg) ==
  [c \in DOMAIN cl |->
     IF cl[c].state # "none"
     THEN [cl[c] EXCEPT !.inbox = Append(@, msg)]
     ELSE cl[c]]

\* wss.clients.forEach(client => { if (client.readyState === OPEN) client.send(msg) })
Broadcast(cl, msg) ==
  [c \in DOMAIN cl |->
     IF cl[c].state = "open"
     THEN [cl[c] EXCEPT !.inbox = Append(@, msg)]
     ELSE cl[c]]

InitOf(slots, scopes, clientIds) ==
  /\ clock = StartTime
  /\ history = << >>
  /\ lastAlertTime = 0
  /\ csvRows = 0
  /\ db = [d \in scopes |-> EmptyDevice]
  /\ nextKey = 1
  /\ clients = [c \in clientIds |-> [state |-> "none", inbox |-> << >>]]
  /\ proc = [s \in slots |-> Idle]
  /\ resp = [slot |-> 0, code |-> "none"]
  /\ nSeq = 0
  /\ accepted = << >>
  /\ alerts = << >>
  /\ deletes = [req |-> 0, ok |-> 0, fail |-> 0]

---------------------------------------------------------------------------
(* The clock and the subscribers *)

Tick(d, maxClock) ==
  /\ clock + d <= maxClock
  /\ clock' = clock + d
  /\ UNCHANGED << history, lastAlertTime, csvRows, db, nextKey, clients, proc,
                  resp, nSeq, accepted, alerts, deletes >>

\* A connection handler that sends nothing to the new client
Connect_NoCatchUp(c) ==
  /\ clients[c].state = "none"
  /\ clients' = [clients EXCEPT ![c] = [state |-> "open", inbox |-> << >>]]
  /\ UNCHANGED << clock, history, lastAlertTime, csvRows, db, nextKey, proc,
                  resp, nSeq, accepted, alerts, deletes >>

\* wss.on("connection"): the new client is in wss.clients, OPEN, and is sent
\* the history
Connect(c) ==
  /\ clients[c].state = "none"
  /\ clients' = [clients EXCEPT ![c] =
                   [state |-> "open",
                    inbox |-> << [type |-> "history", data |-> history] >>]]
  /\ UNCHANGED << clock, history, lastAlertTime, csvRows, db, nextKey, proc,
                  resp, nSeq, accepted, alerts, deletes >>

\* The client's socket leaves the OPEN state (closing, closed, or removed)
Disconnect(c) ==
  /\ clients[c].state = "open"
  /\ clients' = [clients EXCEPT ![c].state = "closed"]
  /\ UNCHANGED << clock, history, lastAlertTime, csvRows, db, nextKey, proc,
                  resp, nSeq, accepted, alerts, deletes >>

---------------------------------------------------------------------------
(* GET /update *)

\* An alert phase whose cooldown test admits exactly 120 s (>= for >)
AlertPhase_Inclusive(s, e) ==
  IF e.status = "UNSAFE" /\ clock - lastAlertTime >= ALERT_COOLDOWN
  THEN /\ proc' = [proc EXCEPT ![s] = [pc |-> "ntfy", entry |-> e, now |-> clock]]
       /\ alerts' = Append(alerts, [at |-> clock, seq |-> e.seq])
       /\ resp' = resp
  ELSE /\ proc' = [proc EXCEPT ![s] = Idle]
       /\ resp' = [slot |-> s, code |-> "200"]
       /\ alerts' = alerts

\* An alert phase that does not look at the status of the entry
AlertPhase_AnyStatus(s, e) ==
  IF clock - lastAlertTime > ALERT_COOLDOWN
  THEN /\ proc' = [proc EXCEPT ![s] = [pc |-> "ntfy", entry |-> e, now |-> clock]]
       /\ alerts' = Append(alerts, [at |-> clock, seq |-> e.seq])
       /\ resp' = resp
  ELSE /\ proc' = [proc EXCEPT ![s] = Idle]
       /\ resp' = [slot |-> s, code |-> "200"]
       /\ alerts' = alerts

(* The code from the NTFY comment to res.send (server.js:190-214), run by  *)
(* whichever continuation leaves the try block, for entry e of slot s.     *)
AlertPhase(s, e) ==
  IF e.status = "UNSAFE" /\ clock - lastAlertTime > ALERT_COOLDOWN
  THEN /\ proc' = [proc EXCEPT ![s] = [pc |-> "ntfy", entry |-> e, now |-> clock]]
       /\ alerts' = Append(alerts, [at |-> clock, seq |-> e.seq])
       /\ resp' = resp
  ELSE /\ proc' = [proc EXCEPT ![s] = Idle]
       /\ resp' = [slot |-> s, code |-> "200"]
       /\ alerts' = alerts

\* server.js:93-149: parse, validate, classify, push, append the CSV row,
\* broadcast, then start the PATCH of devices/<id>/latest
Update(s, q) ==
  /\ proc[s].pc = "idle"
  /\ LET phVal == parseFloat(q.pH)
         tdsVal == parseFloat(q.tds)
         tempVal == parseFloat(q.temp)
         turbVal == parseFloat(q.turb)
         entry == MakeEntry(q, clock, nSeq + 1)
     IN  IF InvalidSensor(phVal, tdsVal, tempVal, turbVal)
         THEN /\ resp' = [slot |-> s, code |-> "400"]
              /\ UNCHANGED << clock, history, lastAlertTime, csvRows, db,
                              nextKey, clients, proc, nSeq, accepted, alerts,
                              deletes >>
         ELSE /\ history' = PushShift(history, entry)
              /\ accepted' = Append(accepted, entry)
              /\ csvRows' = csvRows + 1
              /\ clients' = Broadcast(clients, [type |-> "reading", data |-> entry])
              /\ nSeq' = nSeq + 1
              /\ proc' = [proc EXCEPT ![s] =
                            [pc |-> "patchLatest", id |-> ScopeOf(q.id),
                             entry |-> entry]]
              /\ UNCHANGED << clock, lastAlertTime, db, nextKey, resp, alerts,
                              deletes >>

\* A handler without the catch: a failed PATCH of latest ends it with a 500
PatchLatestDone_Fatal(s, ok) ==
  /\ proc[s].pc = "patchLatest"
  /\ IF ok
     THEN /\ db' = [db EXCEPT ![proc[s].id].latest = << proc[s].entry >>]
          /\ proc' = [proc EXCEPT ![s].pc = "postHistory"]
          /\ UNCHANGED << resp, alerts >>
     ELSE /\ proc' = [proc EXCEPT ![s] = Idle]
          /\ resp' = [slot |-> s, code |-> "500"]
          /\ UNCHANGED << db, alerts >>
  /\ UNCHANGED << clock, history, lastAlertTime, csvRows, nextKey, clients,
                  nSeq, accepted, deletes >>

\* server.js:149-150: the PATCH of latest settles; on success POST history
PatchLatestDone(s, ok) ==
  /\ proc[s].pc = "patchLatest"
  /\ LET id == proc[s].id
         e == proc[s].entry
     IN  IF ok
         THEN /\ db' = [db EXCEPT ![id].latest = << e >>]
              /\ proc' = [proc EXCEPT ![s].pc = "postHistory"]
              /\ UNCHANGED << resp, alerts >>
         ELSE /\ db' = db
              /\ AlertPhase(s, e)
  /\ UNCHANGED << clock, history, lastAlertTime, csvRows, nextKey, clients,
                  nSeq, accepted, deletes >>

\* server.js:150-154: the POST of history settles; a geolocated entry goes on
\* to GET the pins
PostHistoryDone(s, ok) ==
  /\ proc[s].pc = "postHistory"
  /\ LET id == proc[s].id
         e == proc[s].entry
     IN  IF ok
         THEN /\ db' = [db EXCEPT ![id].history = Append(@, e)]
              /\ IF e.lat # Null /\ e.lng # Null
                 THEN /\ proc' = [proc EXCEPT ![s].pc = "getPins"]
                      /\ UNCHANGED << resp, alerts >>
                 ELSE AlertPhase(s, e)
         ELSE /\ db' = db
              /\ AlertPhase(s, e)
  /\ UNCHANGED << clock, history, lastAlertTime, csvRows, nextKey, clients,
                  nSeq, accepted, deletes >>

\* server.js:154-182: the GET of the pins settles; scan them and start the
\* PATCH of the nearest pin or the POST of a new one
GetPinsDone(s, ok) ==
  /\ proc[s].pc = "getPins"
  /\ LET id == proc[s].id
         e == proc[s].entry
         near == Nearest(e, db[id].pins)
     IN  IF ok
         THEN /\ proc' = [proc EXCEPT ![s] =
                            IF MatchesPin(near)
                            THEN [pc |-> "patchPin", id |-> id, entry |-> e,
                                  pinId |-> near.id]
                            ELSE [pc |-> "postPin", id |-> id, entry |-> e]]
              /\ UNCHANGED << resp, alerts >>
         ELSE AlertPhase(s, e)
  /\ UNCHANGED << clock, history, lastAlertTime, csvRows, db, nextKey, clients,
                  nSeq, accepted, deletes >>

\* server.js:173-177: the PATCH of the nearest pin settles
PatchPinDone(s, ok) ==
  /\ proc[s].pc = "patchPin"
  /\ LET id == proc[s].id
         e == proc[s].entry
     IN  /\ db' = IF ok
                  THEN [db EXCEPT ![id].pins = PatchPin(@, proc[s].pinId, e)]
                  ELSE db
         /\ AlertPhase(s, e)
  /\ UNCHANGED << clock, history, lastAlertTime, csvRows, nextKey, clients,
                  nSeq, accepted, deletes >>

\* server.js:179-183: the POST of a new pin settles
PostPinDone(s, ok) ==
  /\ proc[s].pc = "postPin"
  /\ LET id == proc[s].id
         e == proc[s].entry
     IN  /\ db' = IF ok
                  THEN [db EXCEPT ![id].pins = PostPin(@, nextKey, e)]
                  ELSE db
         /\ nextKey' = IF ok THEN nextKey + 1 ELSE nextKey
         /\ AlertPhase(s, e)
  /\ UNCHANGED << clock, history, lastAlertTime, csvRows, clients, nSeq,
                  accepted, deletes >>

\* server.js:196-214: the POST to ntfy settles
NtfyDone(s, ok) ==
  /\ proc[s].pc = "ntfy"
  /\ lastAlertTime' = IF ok THEN proc[s].now ELSE lastAlertTime
  /\ proc' = [proc EXCEPT ![s] = Idle]
  /\ resp' = [slot |-> s, code |-> "200"]
  /\ UNCHANGED << clock, history, csvRows, db, nextKey, clients, nSeq,
                  accepted, alerts, deletes >>

---------------------------------------------------------------------------
(* GET /reset *)

\* A reset that checks the password only when one is given
Reset_MissingAccepted(s, pass, rawId) ==
  /\ proc[s].pc = "idle"
  /\ IF pass # "" /\ pass # RESET_PASSWORD
     THEN /\ resp' = [slot |-> s, code |-> "401"]
          /\ UNCHANGED << proc, deletes >>
     ELSE /\ proc' = [proc EXCEPT ![s] = [pc |-> "delete", id |-> ScopeOf(rawId)]]
          /\ resp' = resp
          /\ deletes' = [deletes EXCEPT !.req = @ + 1]
  /\ UNCHANGED << clock, history, lastAlertTime, csvRows, db, nextKey, clients,
                  nSeq, accepted, alerts >>

\* server.js:48-57: check the password, then start the DELETE of devices/<id>
Reset(s, pass, rawId) ==
  /\ proc[s].pc = "idle"
  /\ IF pass # RESET_PASSWORD
     THEN /\ resp' = [slot |-> s, code |-> "401"]
          /\ UNCHANGED << proc, deletes >>
     ELSE /\ proc' = [proc EXCEPT ![s] = [pc |-> "delete", id |-> ScopeOf(rawId)]]
          /\ resp' = resp
          /\ deletes' = [deletes EXCEPT !.req = @ + 1]
  /\ UNCHANGED << clock, history, lastAlertTime, csvRows, db, nextKey, clients,
                  nSeq, accepted, alerts >>

\* A reset that clears the history and broadcasts whether or not the DELETE
\* succeeded (the two statements placed after the try block)
DeleteDone_ClearAlways(s, ok) ==
  /\ proc[s].pc = "delete"
  /\ proc' = [proc EXCEPT ![s] = Idle]
  /\ history' = << >>
  /\ accepted' = << >>
  /\ clients' = Broadcast(clients, [type |-> "reset"])
  /\ IF ok
     THEN /\ db' = [db EXCEPT ![proc[s].id] = EmptyDevice]
          /\ resp' = [slot |-> s, code |-> "200"]
          /\ deletes' = [deletes EXCEPT !.ok = @ + 1]
     ELSE /\ resp' = [slot |-> s, code |-> "500"]
          /\ deletes' = [deletes EXCEPT !.fail = @ + 1]
          /\ db' = db
  /\ UNCHANGED << clock, lastAlertTime, csvRows, nextKey, nSeq, alerts >>

\* A reset that answers and broadcasts without clearing the history
DeleteDone_NoClear(s, ok) ==
  /\ proc[s].pc = "delete"
  /\ proc' = [proc EXCEPT ![s] = Idle]
  /\ IF ok
     THEN /\ db' = [db EXCEPT ![proc[s].id] = EmptyDevice]
          /\ UNCHANGED << history >>
          /\ accepted' = << >>
          /\ clients' = Broadcast(clients, [type |-> "reset"])
          /\ resp' = [slot |-> s, code |-> "200"]
          /\ deletes' = [deletes EXCEPT !.ok = @ + 1]
     ELSE /\ resp' = [slot |-> s, code |-> "500"]
          /\ deletes' = [deletes EXCEPT !.fail = @ + 1]
          /\ UNCHANGED << db, history, accepted, clients >>
  /\ UNCHANGED << clock, lastAlertTime, csvRows, nextKey, nSeq, alerts >>

\* A reset that clears the history without telling the subscribers
DeleteDone_NoBroadcast(s, ok) ==
  /\ proc[s].pc = "delete"
  /\ proc' = [proc EXCEPT ![s] = Idle]
  /\ IF ok
     THEN /\ db' = [db EXCEPT ![proc[s].id] = EmptyDevice]
          /\ history' = << >>
          /\ accepted' = << >>
          /\ resp' = [slot |-> s, code |-> "200"]
          /\ deletes' = [deletes EXCEPT !.ok = @ + 1]
          /\ UNCHANGED << clients >>
     ELSE /\ resp' = [slot |-> s, code |-> "500"]
          /\ deletes' = [deletes EXCEPT !.fail = @ + 1]
          /\ UNCHANGED << db, history, accepted, clients >>
  /\ UNCHANGED << clock, lastAlertTime, csvRows, nextKey, nSeq, alerts >>

\* server.js:57-70: the DELETE settles; on success clear the history and
\* broadcast the reset message
DeleteDone(s, ok) ==
  /\ proc[s].pc = "delete"
  /\ proc' = [proc EXCEPT ![s] = Idle]
  /\ IF ok
     THEN /\ db' = [db EXCEPT ![proc[s].id] = EmptyDevice]
          /\ history' = << >>
          /\ accepted' = << >>
          /\ clients' = Broadcast(clients, [type |-> "reset"])
          /\ resp' = [slot |-> s, code |-> "200"]
          /\ deletes' = [deletes EXCEPT !.ok = @ + 1]
     ELSE /\ resp' = [slot |-> s, code |-> "500"]
          /\ deletes' = [deletes EXCEPT !.fail = @ + 1]
          /\ UNCHANGED << db, history, accepted, clients >>
  /\ UNCHANGED << clock, lastAlertTime, csvRows, nextKey, nSeq, alerts >>

---------------------------------------------------------------------------
(* Requests *)

Req(id, pH, tds, temp, turb, lat, lng) ==
  [id |-> id, pH |-> pH, tds |-> tds, temp |-> temp, turb |-> turb,
   lat |-> lat, lng |-> lng]

\* A request without coordinates for the default device
Plain(pH, tds, temp, turb) == Req("", pH, tds, temp, turb, Undefined, Undefined)

\* ?pH=7.0&tds=100&temp=20&turb=1 for device `id`, without coordinates
SafeReq(id) ==
  Req(id, << "7", ".", "0" >>, << "1", "0", "0" >>, << "2", "0" >>, << "1" >>,
      Undefined, Undefined)

\* ?pH=9.0&tds=100&temp=20&turb=1 for device `id`, without coordinates
UnsafeReq(id) ==
  Req(id, << "9", ".", "0" >>, << "1", "0", "0" >>, << "2", "0" >>, << "1" >>,
      Undefined, Undefined)

\* A safe request of the default device whose tds is the raw value v
TdsReq(v) == Plain(<< "7", ".", "0" >>, v, << "2", "0" >>, << "1" >>)

\* ?pH=9.0&tds=100&temp=20&turb=1&lat=..&lng=.. for the default device
GeoUnsafeReq(lat, lng) ==
  Req("", << "9", ".", "0" >>, << "1", "0", "0" >>, << "2", "0" >>, << "1" >>,
      lat, lng)

\* A safe request of the default device at the raw coordinates lat, lng
GeoReq(lat, lng) ==
  Req("", << "7", ".", "0" >>, << "1", "0", "0" >>, << "2", "0" >>, << "1" >>,
      lat, lng)

---------------------------------------------------------------------------
(* Spec: resets and ingests handled concurrently.  Two handlers in flight, *)
(* one subscriber, two device scopes, every downstream call may fail.      *)

MaxIngest == 2
MaxResets == 1

Slots == {1, 2}
Scopes == {"device1", "device2"}
ClientIds == {1}
Oks == {TRUE, FALSE}
Passwords == {"LDCHEMICAL", "ldchemical", ""}
RawIds == {"", "device2"}
Requests == {SafeReq("")}

Init == InitOf(Slots, Scopes, ClientIds)

Next ==
  \/ \E c \in ClientIds : Connect(c)
  \/ \E c \in ClientIds : Disconnect(c)
  \/ \E s \in Slots, q \in Requests : nSeq < MaxIngest /\ Update(s, q)
  \/ \E s \in Slots, ok \in Oks : PatchLatestDone(s, ok)
  \/ \E s \in Slots, ok \in Oks : PostHistoryDone(s, ok)
  \/ \E s \in Slots, pass \in Passwords, rawId \in RawIds :
        deletes.req < MaxResets /\ Reset(s, pass, rawId)
  \/ \E s \in Slots, ok \in Oks : DeleteDone(s, ok)

Spec == Init /\ [][Next]_vars

---------------------------------------------------------------------------
(* SpecSubs: one handler at a time, two subscribers.                       *)

MaxIngestSubs == 2
MaxResetsSubs == 1

SubsClientIds == {1, 2}

InitSubs == InitOf({1}, Scopes, SubsClientIds)

NextSubs ==
  \/ \E c \in SubsClientIds : Connect(c)
  \/ \E c \in SubsClientIds : Disconnect(c)
  \/ \E q \in Requests : nSeq < MaxIngestSubs /\ Update(1, q)
  \/ \E ok \in Oks : PatchLatestDone(1, ok)
  \/ \E ok \in Oks : PostHistoryDone(1, ok)
  \/ \E pass \in Passwords, rawId \in RawIds :
        deletes.req < MaxResetsSubs /\ Reset(1, pass, rawId)
  \/ \E ok \in Oks : DeleteDone(1, ok)

SpecSubs == InitSubs /\ [][NextSubs]_vars

---------------------------------------------------------------------------
(* SpecHist: a long run of ingests, with resets, past the history bound.   *)

MaxIngestHist == 52
MaxResetsHist == 1

InitHist == InitOf({1}, {DefaultId}, {})

NextHist ==
  \/ nSeq < MaxIngestHist /\ Update(1, SafeReq(""))
  \/ PatchLatestDone(1, TRUE)
  \/ PostHistoryDone(1, TRUE)
  \/ deletes.req < MaxResetsHist /\ Reset(1, RESET_PASSWORD, "")
  \/ \E ok \in Oks : DeleteDone(1, ok)

SpecHist == InitHist /\ [][NextHist]_vars

---------------------------------------------------------------------------
(* SpecClassify: one ingest of every combination of sensor values around   *)
(* the thresholds.                                                         *)

MaxIngestClassify == 1

RawPH ==
  { << "6", ".", "4", "9" >>, << "6", ".", "5" >>, << "7", ".", "0" >>,
    << "8", ".", "5" >>, << "8", ".", "5", "1" >>, << "9", ".", "0" >> }

RawTds ==
  { << "1", "0", "0" >>, << "5", "0", "0" >>,
    << "5", "0", "0", ".", "0", "1" >>, << "6", "0", "0" >> }

RawTemp == { << "2", "0" >>, << "3", "5" >>, << "3", "5", ".", "0", "1" >> }

RawTurb ==
  { << "1" >>, << "1", "0" >>, << "1", "0", ".", "0", "1" >>, << "1", "1" >> }

ClassifyRequests ==
  { Plain(pH, tds, temp, turb) :
      pH \in RawPH, tds \in RawTds, temp \in RawTemp, turb \in RawTurb }

InitClassify == InitOf({1}, {DefaultId}, {})

NextClassify ==
  \/ \E q \in ClassifyRequests : nSeq < MaxIngestClassify /\ Update(1, q)
  \/ PatchLatestDone(1, TRUE)
  \/ PostHistoryDone(1, TRUE)
  \/ NtfyDone(1, TRUE)

SpecClassify == InitClassify /\ [][NextClassify]_vars

---------------------------------------------------------------------------
(* SpecIngest: requests with absent and malformed sensor values, one       *)
(* subscriber listening.                                                   *)

MaxIngestBad == 1

RawBad ==
  { Undefined, << >>, << "a", "b", "c" >>, << "-" >>, << "." >>,
    << "1", "2", "a", "b", "c" >>, << "1", "2", ".", "5", "p", "p", "m" >>,
    << "Infinity" >> }

IngestRequests ==
  {SafeReq("")}
    \cup { TdsReq(v) : v \in RawBad }
    \cup { Plain(v, << "1", "0", "0" >>, << "2", "0" >>, << "1" >>) :
             v \in {Undefined, << "a", "b", "c" >>} }
    \cup { Plain(<< "7" >>, << "1", "0", "0" >>, v, << "1" >>) :
             v \in {Undefined, << "a", "b", "c" >>} }
    \cup { Plain(<< "7" >>, << "1", "0", "0" >>, << "2", "0" >>, v) :
             v \in {Undefined, << "a", "b", "c" >>} }

InitIngest == InitOf({1}, {DefaultId}, {1})

NextIngest ==
  \/ Connect(1)
  \/ Disconnect(1)
  \/ \E q \in IngestRequests : nSeq < MaxIngestBad /\ Update(1, q)
  \/ \E ok \in Oks : PatchLatestDone(1, ok)
  \/ \E ok \in Oks : PostHistoryDone(1, ok)
  \/ \E ok \in Oks : NtfyDone(1, ok)

SpecIngest == InitIngest /\ [][NextIngest]_vars

---------------------------------------------------------------------------
(* SpecPins: geolocated ingests handled one at a time, the durable store   *)
(* available.  Coordinates are a few units of 0.00001 degree (1.112 m)     *)
(* from (0, 0).                                                            *)

MaxIngestPins == 4

Deg0 == << "0" >>
Deg5 == << "0", ".", "0", "0", "0", "0", "5" >>
Deg14 == << "0", ".", "0", "0", "0", "1", "4" >>
Deg32 == << "0", ".", "0", "0", "0", "3", "2" >>
Deg41 == << "0", ".", "0", "0", "0", "4", "1" >>

PinRequests ==
  { GeoReq(Deg5, Deg5), GeoReq(Deg5, Deg14), GeoReq(Deg5, Deg32),
    GeoReq(Deg5, Deg41), GeoReq(Deg0, Deg5), GeoReq(Deg5, Deg0),
    GeoReq(Deg5, Undefined) }

InitPins == InitOf({1}, {DefaultId}, {})

NextPins ==
  \/ \E q \in PinRequests : nSeq < MaxIngestPins /\ Update(1, q)
  \/ PatchLatestDone(1, TRUE)
  \/ PostHistoryDone(1, TRUE)
  \/ GetPinsDone(1, TRUE)
  \/ PatchPinDone(1, TRUE)
  \/ PostPinDone(1, TRUE)

SpecPins == InitPins /\ [][NextPins]_vars

---------------------------------------------------------------------------
(* SpecAlert: unsafe ingests handled one at a time while the clock runs,   *)
(* every downstream call succeeding.                                       *)

MaxIngestAlert == 3
MaxSecondsAlert == 130

AlertTicks == {10 * 1000, 120 * 1000}

InitAlert == InitOf({1}, {DefaultId}, {})

NextAlert ==
  \/ \E d \in AlertTicks : Tick(d, StartTime + MaxSecondsAlert * 1000)
  \/ nSeq < MaxIngestAlert /\ Update(1, UnsafeReq(""))
  \/ PatchLatestDone(1, TRUE)
  \/ PostHistoryDone(1, TRUE)
  \/ NtfyDone(1, TRUE)

SpecAlert == InitAlert /\ [][NextAlert]_vars

---------------------------------------------------------------------------
(* SpecBurst: unsafe ingests handled concurrently, the alert send and the  *)
(* durable store may fail.                                                 *)

MaxIngestBurst == 2
MaxSecondsBurst == 130

BurstTicks == {65 * 1000}

InitBurst == InitOf(Slots, {DefaultId}, {})

NextBurst ==
  \/ \E d \in BurstTicks : Tick(d, StartTime + MaxSecondsBurst * 1000)
  \/ \E s \in Slots : nSeq < MaxIngestBurst /\ Update(s, UnsafeReq(""))
  \/ \E s \in Slots, ok \in Oks : PatchLatestDone(s, ok)
  \/ \E s \in Slots, ok \in Oks : PostHistoryDone(s, ok)
  \/ \E s \in Slots, ok \in Oks : NtfyDone(s, ok)

SpecBurst == InitBurst /\ [][NextBurst]_vars

---------------------------------------------------------------------------
(* SpecCast: ingests handled concurrently while two subscribers come and   *)
(* go.                                                                     *)

MaxIngestCast == 2

InitCast == InitOf(Slots, {DefaultId}, SubsClientIds)

NextCast ==
  \/ \E c \in SubsClientIds : Connect(c)
  \/ \E c \in SubsClientIds : Disconnect(c)
  \/ \E s \in Slots : nSeq < MaxIngestCast /\ Update(s, SafeReq(""))
  \/ \E s \in Slots : PatchLatestDone(s, TRUE)
  \/ \E s \in Slots : PostHistoryDone(s, TRUE)

SpecCast == InitCast /\ [][NextCast]_vars

---------------------------------------------------------------------------
(* SpecScopes: two devices ingest and are reset, one handler at a time,    *)
(* one subscriber.                                                         *)

MaxIngestScopes == 2
MaxResetsScopes == 1

ScopeRequests == {SafeReq(""), SafeReq("device2")}

InitScopes == InitOf({1}, Scopes, ClientIds)

NextScopes ==
  \/ \E c \in ClientIds : Connect(c)
  \/ \E c \in ClientIds : Disconnect(c)
  \/ \E q \in ScopeRequests : nSeq < MaxIngestScopes /\ Update(1, q)
  \/ \E ok \in Oks : PatchLatestDone(1, ok)
  \/ \E ok \in Oks : PostHistoryDone(1, ok)
  \/ \E rawId \in RawIds :
        deletes.req < MaxResetsScopes /\ Reset(1, RESET_PASSWORD, rawId)
  \/ \E ok \in Oks : DeleteDone(1, ok)

SpecScopes == InitScopes /\ [][NextScopes]_vars

---------------------------------------------------------------------------
(* SpecFail: geolocated unsafe ingests, one at a time, every durable-store *)
(* call and the alert send may fail; one subscriber.                       *)

MaxIngestFail == 2

FailRequests == {GeoUnsafeReq(Deg5, Deg5), TdsReq(<< "a", "b", "c" >>)}

InitFail == InitOf({1}, {DefaultId}, ClientIds)

NextFail ==
  \/ \E c \in ClientIds : Connect(c)
  \/ \E c \in ClientIds : Disconnect(c)
  \/ \E q \in FailRequests : nSeq < MaxIngestFail /\ Update(1, q)
  \/ \E ok \in Oks : PatchLatestDone(1, ok)
  \/ \E ok \in Oks : PostHistoryDone(1, ok)
  \/ \E ok \in Oks : GetPinsDone(1, ok)
  \/ \E ok \in Oks : PatchPinDone(1, ok)
  \/ \E ok \in Oks : PostPinDone(1, ok)
  \/ \E ok \in Oks : NtfyDone(1, ok)

SpecFail == InitFail /\ [][NextFail]_vars

---------------------------------------------------------------------------
(* SpecRace: geolocated ingests of one device handled concurrently, the    *)
(* durable store available.                                                *)

MaxIngestRace == 2

RaceRequests == {GeoReq(Deg5, Deg5), GeoReq(Deg5, Deg14)}

InitRace == InitOf(Slots, {DefaultId}, {})

NextRace ==
  \/ \E s \in Slots, q \in RaceRequests : nSeq < MaxIngestRace /\ Update(s, q)
  \/ \E s \in Slots : PatchLatestDone(s, TRUE)
  \/ \E s \in Slots : PostHistoryDone(s, TRUE)
  \/ \E s \in Slots : GetPinsDone(s, TRUE)
  \/ \E s \in Slots : PatchPinDone(s, TRUE)
  \/ \E s \in Slots : PostPinDone(s, TRUE)

SpecRace == InitRace /\ [][NextRace]_vars

---------------------------------------------------------------------------
(* SpecWindow: a reset of the one device handled concurrently with its     *)
(* ingests, the durable store available to the ingests.                    *)

MaxIngestWindow == 2
MaxResetsWindow == 1

InitWindow == InitOf(Slots, {DefaultId}, {})

NextWindow ==
  \/ \E s \in Slots : nSeq < MaxIngestWindow /\ Update(s, SafeReq(""))
  \/ \E s \in Slots : PatchLatestDone(s, TRUE)
  \/ \E s \in Slots : PostHistoryDone(s, TRUE)
  \/ \E s \in Slots :
        deletes.req < MaxResetsWindow /\ Reset(s, RESET_PASSWORD, "")
  \/ \E s \in Slots, ok \in Oks : DeleteDone(s, ok)

SpecWindow == InitWindow /\ [][NextWindow]_vars

---------------------------------------------------------------------------
(* SpecCool: unsafe ingests and a reset, one handler at a time, while the  *)
(* clock runs for less than one cooldown; every downstream call of an      *)
(* ingest succeeds.                                                        *)

MaxIngestCool == 2
MaxResetsCool == 1
MaxSecondsCool == 20

CoolTicks == {10 * 1000}

InitCool == InitOf({1}, {DefaultId}, {})

NextCool ==
  \/ \E d \in CoolTicks : Tick(d, StartTime + MaxSecondsCool * 1000)
  \/ nSeq < MaxIngestCool /\ Update(1, UnsafeReq(""))
  \/ PatchLatestDone(1, TRUE)
  \/ PostHistoryDone(1, TRUE)
  \/ NtfyDone(1, TRUE)
  \/ deletes.req < MaxResetsCool /\ Reset(1, RESET_PASSWORD, "")
  \/ \E ok \in Oks : DeleteDone(1, ok)

SpecCool == InitCool /\ [][NextCool]_vars

---------------------------------------------------------------------------
(* SpecMixed: safe and unsafe ingests handled concurrently while the clock *)
(* runs past one cooldown; the alert send may fail.                        *)

MaxIngestMixed == 2
MaxSecondsMixed == 130

MixedTicks == {130 * 1000}
MixedRequests == {SafeReq(""), UnsafeReq("")}

InitMixed == InitOf(Slots, {DefaultId}, {})

NextMixed ==
  \/ \E d \in MixedTicks : Tick(d, StartTime + MaxSecondsMixed * 1000)
  \/ \E s \in Slots, q \in MixedRequests : nSeq < MaxIngestMixed /\ Update(s, q)
  \/ \E s \in Slots : PatchLatestDone(s, TRUE)
  \/ \E s \in Slots : PostHistoryDone(s, TRUE)
  \/ \E s \in Slots, ok \in Oks : NtfyDone(s, ok)

SpecMixed == InitMixed /\ [][NextMixed]_vars

---------------------------------------------------------------------------
(* SpecView: a subscriber connects at any point while ingests and a reset  *)
(* are handled concurrently and the history reaches its bound.  The run    *)
(* starts from the state the server is in after ViewStart Readings have    *)
(* been ingested one at a time (a state SpecHist reaches).                 *)

MaxIngestView == 3
MaxResetsView == 1

ViewStart == HISTORY_MAX - 2

\* The n-th of the Readings ingested before the run starts
ViewEntry(n) == MakeEntry(SafeReq(""), StartTime, n)

ViewHistory == [i \in 1..ViewStart |-> ViewEntry(i)]

InitView ==
  /\ clock = StartTime
  /\ history = ViewHistory
  /\ lastAlertTime = 0
  /\ csvRows = ViewStart
  /\ db = [d \in {DefaultId} |->
             [latest |-> << ViewEntry(ViewStart) >>, history |-> ViewHistory,
              pins |-> << >>]]
  /\ nextKey = 1
  /\ clients = [c \in ClientIds |-> [state |-> "none", inbox |-> << >>]]
  /\ proc = [s \in Slots |-> Idle]
  /\ resp = [slot |-> 1, code |-> "200"]
  /\ nSeq = ViewStart
  /\ accepted = ViewHistory
  /\ alerts = << >>
  /\ deletes = [req |-> 0, ok |-> 0, fail |-> 0]

NextView ==
  \/ \E c \in ClientIds : Connect(c)
  \/ \E c \in ClientIds : Disconnect(c)
  \/ \E s \in Slots : nSeq < ViewStart + MaxIngestView /\ Update(s, SafeReq(""))
  \/ \E s \in Slots : PatchLatestDone(s, TRUE)
  \/ \E s \in Slots : PostHistoryDone(s, TRUE)
  \/ \E s \in Slots :
        deletes.req < MaxResetsView /\ Reset(s, RESET_PASSWORD, "")
  \/ \E s \in Slots, ok \in Oks : DeleteDone(s, ok)

SpecView == InitView /\ [][NextView]_vars

---------------------------------------------------------------------------
(* SpecMove: geolocated ingests handled one at a time, the durable store   *)
(* available, at coordinates away from latitude and longitude 0: four      *)
(* points on one meridian, 10 m, 30 m and 40 m from the first.             *)

MaxIngestMove == 3

MoveRequests ==
  { GeoReq(Deg5, Deg5), GeoReq(Deg5, Deg14), GeoReq(Deg5, Deg32),
    GeoReq(Deg5, Deg41) }

InitMove == InitOf({1}, {DefaultId}, {})

NextMove ==
  \/ \E q \in MoveRequests : nSeq < MaxIngestMove /\ Update(1, q)
  \/ PatchLatestDone(1, TRUE)
  \/ PostHistoryDone(1, TRUE)
  \/ GetPinsDone(1, TRUE)
  \/ PatchPinDone(1, TRUE)
  \/ PostPinDone(1, TRUE)

SpecMove == InitMove /\ [][NextMove]_vars

---------------------------------------------------------------------------
(* Claims *)

\* The last min(n, Len(s)) elements of s, in order.
LastN(s, n) ==
  IF Len(s) <= n THEN s ELSE SubSeq(s, Len(s) - n + 1, Len(s))

(* C1: the history cache holds at most 50 Readings, and they are exactly   *)
(* the most recent (up to 50) Readings accepted since the last successful  *)
(* reset, oldest first; the 51st append evicts only the oldest one.        *)
C1_HistoryBound ==
  /\ Len(history) <= 50
  /\ history = LastN(accepted, 50)
  /\ \A i \in 1..Len(accepted) - 1 : accepted[i].seq < accepted[i + 1].seq

\* 51 Readings were accepted since the last clear: 50 are held, from the second on
C1_Witness ==
  /\ Len(accepted) = 51
  /\ Len(history) = 50
  /\ history[1] = accepted[2]
  /\ history[50] = accepted[51]

\* Every entry the server holds: in the history or in a handler in flight
EntriesHeld ==
  { history[i] : i \in 1..Len(history) }
    \cup { proc[s].entry : s \in { x \in DOMAIN proc : proc[x].pc # "idle"
                                                      /\ proc[x].pc # "delete" } }

(* C2: a Reading's status is UNSAFE exactly when pH < 6.5 or pH > 8.5 or   *)
(* tds > 500 or temp > 35 or turbidity > 10, and SAFE otherwise; a value   *)
(* exactly on a threshold is SAFE.  (Values are fixed point: v * Scale.)   *)
C2_Classification ==
  \A e \in EntriesHeld :
    /\ e.status \in {"SAFE", "UNSAFE"}
    /\ e.status = "UNSAFE" <=>
         \/ 10 * e.pH < 65 * Scale
         \/ 10 * e.pH > 85 * Scale
         \/ e.tds > 500 * Scale
         \/ e.temp > 35 * Scale
         \/ e.turb > 10 * Scale

\* The Reading pH 8.5, tds 500, temp 35, turbidity 10 was accepted, and is SAFE
C2_Witness ==
  \E i \in 1..Len(history) :
    /\ 10 * history[i].pH = 85 * Scale
    /\ history[i].tds = 500 * Scale
    /\ history[i].temp = 35 * Scale
    /\ history[i].turb = 10 * Scale
    /\ history[i].status = "SAFE"

\* The raw value is present and is, as a whole, a finite decimal number:
\* an optional sign, digits, optionally a point and digits, and nothing else.
WholeNumeric(v) ==
  LET b == IF Len(v) >= 1 /\ v[1] \in {"+", "-"} THEN 2 ELSE 1
      ni == DigitRun(v, b)
      nf == IF b + ni <= Len(v) /\ v[b + ni] = "." THEN DigitRun(v, b + ni + 1) ELSE 0
  IN  /\ ni + nf >= 1
      /\ Len(v) = (b - 1) + ni + (IF nf > 0 THEN 1 + nf ELSE 0)

MissingOrNonNumeric(q) ==
  \E v \in {q.pH, q.tds, q.temp, q.turb} : ~WholeNumeric(v)

\* The request is answered 400 and nothing but the response changes
RejectedUntouched ==
  /\ resp'.code = "400"
  /\ UNCHANGED << history, lastAlertTime, csvRows, db, nextKey, clients, proc,
                  nSeq, accepted, alerts, deletes >>

(* C3: an ingest request in which any of pH, tds, temp, turbidity is       *)
(* missing or non-numeric is rejected with a client error and changes      *)
(* nothing: history, alert state, pins, subscribers, durable store.        *)
C3_InvalidRejected ==
  [][\A q \in IngestRequests :
       (MissingOrNonNumeric(q) /\ Update(1, q)) => RejectedUntouched]_vars

\* What does hold: a request one of whose values parseFloat turns into NaN is
\* answered 400 and changes nothing
C3_NaNRejected ==
  [][\A q \in IngestRequests :
       ((\E v \in {q.pH, q.tds, q.temp, q.turb} : isNaN(parseFloat(v)))
          /\ Update(1, q)) => RejectedUntouched]_vars

\* The pins of the default scope, and the distance (mm) from entry e to pin i
PinsOf(d) == d[DefaultId].pins

PinDist(e, pins, i) == distanceMeters(e.lat, e.lng, pins[i].e.lat, pins[i].e.lng)

\* The first pin, in insertion order, at minimum distance from e
FirstNearest(e, pins) ==
  CHOOSE i \in 1..Len(pins) :
    /\ \A j \in 1..Len(pins) : PinDist(e, pins, i) <= PinDist(e, pins, j)
    /\ \A j \in 1..(i - 1) : PinDist(e, pins, j) > PinDist(e, pins, i)

\* Slot 1 finishes the pin write of its geolocated entry in this step
PinWriteStep ==
  /\ proc[1].pc \in {"patchPin", "postPin"}
  /\ proc'[1].pc \notin {"patchPin", "postPin"}

(* C4: for a geolocated Reading handled alone, with the durable store      *)
(* available: if some Pin of the scope is within 25 m, the nearest Pin     *)
(* (first inserted on ties) is updated and the Pin count is unchanged;     *)
(* otherwise exactly one new Pin is created at the Reading's coordinates.  *)
(* This covers every coordinate value, latitude or longitude 0 included.   *)
C4_PinRule ==
  [][PinWriteStep =>
       LET e == proc[1].entry
           old == PinsOf(db)
           new == PinsOf(db')
       IN  IF \E i \in 1..Len(old) : PinDist(e, old, i) <= 25 * 1000
           THEN /\ Len(new) = Len(old)
                /\ \A i \in 1..Len(old) :
                     new[i] = IF i = FirstNearest(e, old)
                              THEN [id |-> old[i].id, e |-> e]
                              ELSE old[i]
           ELSE /\ Len(new) = Len(old) + 1
                /\ new[Len(new)].e = e
                /\ \A i \in 1..Len(old) : new[i] = old[i]]_vars

\* Slot s leaves the durable-store part of /update in this step and runs the
\* alert code for its entry
ReachesAlertCode(s) ==
  /\ proc[s].pc \in {"patchLatest", "postHistory", "getPins", "patchPin", "postPin"}
  /\ proc'[s].pc \in {"ntfy", "idle"}

\* Slot s starts an alert send in this step
StartsAlert(s) ==
  /\ proc[s].pc # "ntfy"
  /\ proc'[s].pc = "ntfy"
  /\ Len(alerts') = Len(alerts) + 1

(* C5: with UNSAFE Readings handled one at a time and every alert send     *)
(* succeeding, an alert is sent for an UNSAFE Reading exactly when there   *)
(* was no alert before or more than 120 seconds have passed since the last *)
(* alert was sent (times are those at which the alert code runs).          *)
C5_AlertDebounce ==
  [][(ReachesAlertCode(1) /\ proc[1].entry.status = "UNSAFE") =>
       (StartsAlert(1) <=>
          \/ alerts = << >>
          \/ clock - alerts[Len(alerts)].at > 120 * 1000)]_vars

\* Three UNSAFE Readings: the first alerted, the second, whose alert code ran
\* 10 s later, did not, and the third, 130 s after the first, alerted again
C5_Witness ==
  /\ nSeq = 3
  /\ Len(alerts) = 2
  /\ alerts[1].seq = 1
  /\ alerts[2].seq = 3
  /\ alerts[2].at - alerts[1].at = 130 * 1000
  /\ history[2].ts - alerts[1].at = 10 * 1000
  /\ proc[1].pc = "idle"
  /\ lastAlertTime = alerts[2].at

(* C6: exactly one alert attempt per cooldown window, even under a burst   *)
(* of UNSAFE Readings: for any interleaving of concurrently handled UNSAFE *)
(* ingests, no two alert sends are started within 120 seconds of each      *)
(* other.                                                                  *)
C6_OneAttemptPerWindow ==
  \A i \in 1..Len(alerts) : \A j \in (i + 1)..Len(alerts) :
    alerts[j].at - alerts[i].at > 120 * 1000

(* C7: when the throttle fires for an UNSAFE Reading, lastAlertAt is set   *)
(* to that Reading's `now` whether the send succeeds or fails, so no       *)
(* further attempt is made in the next 120 seconds.                        *)
C7_CooldownSetOnAttempt ==
  [][\A s \in Slots :
       (proc[s].pc = "ntfy" /\ proc'[s].pc # "ntfy") =>
         lastAlertTime' = proc[s].now]_vars

ResetMsg == [type |-> "reset"]

\* How many reset messages subscriber c has received
ResetsReceived(cl, c) ==
  Cardinality({ i \in 1..Len(cl[c].inbox) : cl[c].inbox[i] = ResetMsg })

\* Some subscriber receives a reset message in this step
SomeResetDelivered ==
  \E c \in DOMAIN clients : ResetsReceived(clients', c) > ResetsReceived(clients, c)

\* A handler answers its reset request in this step
ResetAnswered(s) == proc[s].pc = "delete" /\ proc'[s].pc = "idle"

(* C8: a reset with the correct credential first requests the deletion of  *)
(* the scope's durable record and touches nothing else; the history is     *)
(* cleared and the reset message broadcast only in the step in which that  *)
(* deletion is confirmed (delete, then clear, then broadcast).  If the     *)
(* deletion fails, the history and every subscriber are left as they were  *)
(* and the caller gets a failure.                                          *)
C8_ResetOrder ==
  [][/\ \A s \in DOMAIN proc :
          (proc[s].pc = "idle" /\ proc'[s].pc = "delete") =>
            /\ deletes'.req = deletes.req + 1
            /\ UNCHANGED << history, clients, db, resp >>
     /\ ((history # << >> /\ history' = << >>) \/ SomeResetDelivered) =>
          deletes'.ok = deletes.ok + 1
     /\ \A s \in DOMAIN proc :
          (ResetAnswered(s) /\ deletes'.ok = deletes.ok + 1) =>
            /\ db'[proc[s].id] = EmptyDevice
            /\ history' = << >>
            /\ clients' = Broadcast(clients, ResetMsg)
            /\ resp' = [slot |-> s, code |-> "200"]
     /\ \A s \in DOMAIN proc :
          (ResetAnswered(s) /\ deletes'.fail = deletes.fail + 1) =>
            /\ UNCHANGED << history, clients, db >>
            /\ resp' = [slot |-> s, code |-> "500"]
     /\ \A s \in DOMAIN proc :
          ResetAnswered(s) =>
            deletes'.ok + deletes'.fail = deletes.ok + deletes.fail + 1]_vars

\* A reset's deletion failed while a Reading was held and a subscriber was
\* listening: the Reading is still there, no reset message was sent, and the
\* caller was answered 500
C8_Witness ==
  /\ deletes.fail = 1
  /\ deletes.ok = 0
  /\ resp.code = "500"
  /\ Len(history) >= 1
  /\ \E c \in DOMAIN clients :
       /\ clients[c].state = "open"
       /\ Len(clients[c].inbox) = 2
       /\ ResetsReceived(clients, c) = 0

\* A reset has succeeded and no ingest has been accepted since
JustReset(d, acc) == d.ok >= 1 /\ acc = << >>

(* C9: immediately after a successful reset (before any later ingest is    *)
(* accepted) the snapshot query returns empty, a subscriber that connects  *)
(* receives a history message with an empty sequence, and every subscriber *)
(* that was open at the time of the reset has received exactly one reset   *)
(* message for it.                                                         *)
C9_AfterReset ==
  [][/\ JustReset(deletes', accepted') => Snapshot(history') = << >>
     /\ \A c \in DOMAIN clients :
          (JustReset(deletes, accepted)
             /\ clients[c].state = "none" /\ clients'[c].state = "open") =>
            clients'[c].inbox = << [type |-> "history", data |-> << >>] >>
     /\ \A c \in DOMAIN clients :
          (deletes'.ok = deletes.ok + 1 /\ clients[c].state = "open") =>
            /\ clients'[c].inbox = Append(clients[c].inbox, ResetMsg)
            /\ ResetsReceived(clients', c) = ResetsReceived(clients, c) + 1]_vars

\* After a Reading and a successful reset: subscriber 1, open throughout, got
\* the Reading and then one reset; subscriber 2 connected after the reset and
\* got an empty history
C9_Witness ==
  /\ JustReset(deletes, accepted)
  /\ nSeq >= 1
  /\ Snapshot(history) = << >>
  /\ clients[1].state = "open"
  /\ Len(clients[1].inbox) = 3
  /\ clients[1].inbox[2].type = "reading"
  /\ clients[1].inbox[3] = ResetMsg
  /\ clients[2].inbox = << [type |-> "history", data |-> << >>] >>

(* C10: a reset request with a wrong or missing credential is answered     *)
(* unauthorized before any side effect: no durable deletion is requested,  *)
(* the history, the alert state and the durable store are unchanged, no    *)
(* subscriber receives a message, and no handler is left in flight.        *)
C10_Unauthorized ==
  [][\A s \in DOMAIN proc, pass \in Passwords, rawId \in RawIds :
       (pass # "LDCHEMICAL" /\ Reset(s, pass, rawId)) =>
         /\ resp' = [slot |-> s, code |-> "401"]
         /\ UNCHANGED << history, lastAlertTime, csvRows, db, nextKey, clients,
                         proc, nSeq, accepted, alerts, deletes >>]_vars

\* A reset without a password was answered 401 while a Reading was held and a
\* subscriber was listening; no deletion was ever requested
C10_Witness ==
  /\ resp.code = "401"
  /\ deletes.req = 0
  /\ Len(history) >= 1
  /\ \E c \in DOMAIN clients : clients[c].state = "open"

\* The positions of the history messages in a subscriber's inbox
HistoryMsgs(box) == { i \in 1..Len(box) : box[i].type = "history" }

(* C11: every subscriber receives exactly one history message, it is the   *)
(* first message on its channel, and its content is the history cache,     *)
(* oldest first, at the moment of connection; no reading or reset message  *)
(* reaches a subscriber before its history message.                        *)
C11_CatchUpFirst ==
  [][\A c \in DOMAIN clients :
       /\ clients'[c].state = "none" => clients'[c].inbox = << >>
       /\ clients'[c].state # "none" =>
            /\ Len(clients'[c].inbox) >= 1
            /\ HistoryMsgs(clients'[c].inbox) = {1}
       /\ (clients[c].state = "none" /\ clients'[c].state = "open") =>
            clients'[c].inbox = << [type |-> "history", data |-> history] >>]_vars

\* Subscriber 1 connected before the first Reading and got an empty history
\* and then the Reading; subscriber 2 connected after it and got a history
\* holding that Reading
C11_Witness ==
  /\ Len(history) = 1
  /\ clients[1].state = "open"
  /\ clients[1].inbox = << [type |-> "history", data |-> << >>],
                          [type |-> "reading", data |-> history[1]] >>
  /\ clients[2].state = "open"
  /\ clients[2].inbox = << [type |-> "history", data |-> history] >>

\* The positions of the reading messages in a subscriber's inbox
ReadingMsgs(box) == { i \in 1..Len(box) : box[i].type = "reading" }

(* C12: every accepted ingest pushes exactly one reading message carrying  *)
(* that Reading to each subscriber whose channel is open at that moment,   *)
(* in the order in which the Readings were appended to the history cache;  *)
(* a subscriber whose channel is not open is skipped, the others receive   *)
(* the message all the same and the ingest goes on.  No other step         *)
(* delivers a reading message.                                             *)
C12_ReadingBroadcast ==
  [][/\ nSeq' = nSeq + 1 =>
          LET e == history'[Len(history')]
          IN  /\ e.seq = nSeq'
              /\ \A c \in DOMAIN clients :
                    clients'[c] =
                      IF clients[c].state = "open"
                      THEN [clients[c] EXCEPT
                              !.inbox = Append(@, [type |-> "reading", data |-> e])]
                      ELSE clients[c]
              /\ \E s \in DOMAIN proc :
                    /\ proc[s].pc = "idle"
                    /\ proc'[s] = [pc |-> "patchLatest", id |-> DefaultId,
                                   entry |-> e]
     /\ nSeq' = nSeq =>
          \A c \in DOMAIN clients :
            Cardinality(ReadingMsgs(clients'[c].inbox))
              = Cardinality(ReadingMsgs(clients[c].inbox))
     /\ \A c \in DOMAIN clients :
          \A i, j \in ReadingMsgs(clients'[c].inbox) :
            i < j => clients'[c].inbox[i].data.seq < clients'[c].inbox[j].data.seq]_vars

\* Two Readings were accepted: subscriber 1, open throughout, received both
\* in order; subscriber 2 closed after the first and received only that one
C12_Witness ==
  /\ Len(history) = 2
  /\ clients[1].state = "open"
  /\ clients[1].inbox = << [type |-> "history", data |-> << >>],
                          [type |-> "reading", data |-> history[1]],
                          [type |-> "reading", data |-> history[2]] >>
  /\ clients[2].state = "closed"
  /\ clients[2].inbox = << [type |-> "history", data |-> << >>],
                          [type |-> "reading", data |-> history[1]] >>

\* The Readings the durable store holds for scope d: they were ingested for d
StoredFor(d) ==
  { db[d].history[i] : i \in 1..Len(db[d].history) }
    \cup { db[d].latest[i] : i \in 1..Len(db[d].latest) }

(* C13: with several device scopes ingesting, the snapshot of one scope is *)
(* never a Reading ingested for a different scope (a snapshot query for a  *)
(* scope returns the most recent Reading accepted for that scope, or an    *)
(* empty result).                                                          *)
C13_SnapshotPerScope ==
  \A x \in Scopes, y \in Scopes :
    x # y => \A e \in StoredFor(x) : SnapshotFor(y, history) # << e >>

\* The positions of an /update handler after its synchronous head
UpdatePcs == {"patchLatest", "postHistory", "getPins", "patchPin", "postPin", "ntfy"}

(* C14: a failure of any durable-store call or of the alert send during an *)
(* ingest is non-fatal: whatever the outcome of an awaited call, the       *)
(* Reading stays in the history cache, no subscriber's messages change,    *)
(* and when the handler ends it answers success; no handler answers a      *)
(* server error, and a request with valid sensor values is never rejected. *)
C14_DownstreamNonFatal ==
  [][/\ \A s \in DOMAIN proc :
          (proc[s].pc \in UpdatePcs /\ proc'[s] # proc[s]) =>
            /\ history' = history
            /\ clients' = clients
            /\ \E i \in 1..Len(history') : history'[i] = proc[s].entry
            /\ proc'[s].pc \in UpdatePcs \cup {"idle"}
            /\ proc'[s].pc = "idle" => resp' = [slot |-> s, code |-> "200"]
     /\ resp'.code \in {"none", "200", "400"}
     /\ \A q \in FailRequests :
          (Update(1, q) /\ ~MissingOrNonNumeric(q)) =>
            /\ proc'[1].pc = "patchLatest"
            /\ resp' = resp]_vars

\* One unsafe Reading was ingested while the PATCH of latest and the alert
\* send both failed: it is in the history, the subscriber has it, nothing is
\* stored, the cooldown was not started, and the request was answered 200
C14_Witness ==
  /\ nSeq = 1
  /\ proc[1].pc = "idle"
  /\ resp = [slot |-> 1, code |-> "200"]
  /\ Len(history) = 1
  /\ db[DefaultId] = EmptyDevice
  /\ Len(alerts) = 1
  /\ lastAlertTime = 0
  /\ clients[1].inbox = << [type |-> "history", data |-> << >>],
                          [type |-> "reading", data |-> history[1]] >>

(* C15: pin updates are race-free within a scope: for any interleaving of  *)
(* concurrently handled geolocated ingests of the same scope, two Readings *)
(* at the same coordinates never produce two distinct Pins (as no serial   *)
(* order of the ingests does).                                             *)
C15_PinsRaceFree ==
  LET pins == PinsOf(db)
  IN  \A i \in 1..Len(pins), j \in 1..Len(pins) :
        i # j => \/ pins[i].e.lat # pins[j].e.lat
                 \/ pins[i].e.lng # pins[j].e.lng

(* C16: for any interleaving of a reset with ingests of the same scope,    *)
(* once the reset has completed and until the next ingest is accepted, the *)
(* durable store holds no record (latest, history or pins) for the scope   *)
(* and the history cache is empty.                                         *)
C16_NoResetWindow ==
  JustReset(deletes, accepted) =>
    /\ history = << >>
    /\ db[DefaultId] = EmptyDevice

(* C17: a successful reset clears the alert state along with the history: *)
(* after it lastAlertTime is 0 (none), so the first UNSAFE Reading         *)
(* ingested after the reset starts an alert send even if an alert was sent *)
(* less than 120 seconds before the reset.                                 *)
C17_ResetClearsAlertState ==
  [][/\ \A s \in DOMAIN proc :
          (ResetAnswered(s) /\ deletes'.ok = deletes.ok + 1) =>
            lastAlertTime' = 0
     /\ (/\ ReachesAlertCode(1)
         /\ proc[1].entry.status = "UNSAFE"
         /\ deletes.ok >= 1
         /\ accepted = << proc[1].entry >>) => StartsAlert(1)]_vars

\* The second conjunct alone: the first UNSAFE Reading after a successful
\* reset starts an alert send
C17_AlertAfterReset ==
  [][(/\ ReachesAlertCode(1)
      /\ proc[1].entry.status = "UNSAFE"
      /\ deletes.ok >= 1
      /\ accepted = << proc[1].entry >>) => StartsAlert(1)]_vars

(* C18: an ingest of a Reading classified SAFE never starts an alert send  *)
(* and leaves lastAlertTime unchanged, in its synchronous head and in      *)
(* every later step of its handler; every alert send was started for a     *)
(* Reading classified UNSAFE, and no Reading has two of them.              *)
C18_SafeNeverAlerts ==
  [][/\ \A s \in DOMAIN proc :
          (/\ proc[s].pc \in UpdatePcs
           /\ proc[s].entry.status = "SAFE"
           /\ proc'[s] # proc[s]) =>
            /\ UNCHANGED << lastAlertTime, alerts >>
            /\ proc'[s].pc # "ntfy"
     /\ nSeq' = nSeq + 1 => UNCHANGED << lastAlertTime, alerts >>
     /\ \A i \in 1..Len(alerts') :
          \E k \in 1..Len(accepted') :
            /\ accepted'[k].seq = alerts'[i].seq
            /\ accepted'[k].status = "UNSAFE"
     /\ \A i \in 1..Len(alerts'), j \in 1..Len(alerts') :
          i # j => alerts'[i].seq # alerts'[j].seq]_vars

\* An UNSAFE Reading alerted; a SAFE Reading ingested 130 s later was handled
\* to the end without an alert send and without touching lastAlertTime
C18_Witness ==
  /\ nSeq = 2
  /\ \A s \in DOMAIN proc : proc[s].pc = "idle"
  /\ accepted[1].status = "UNSAFE"
  /\ accepted[2].status = "SAFE"
  /\ Len(alerts) = 1
  /\ alerts[1].seq = 1
  /\ lastAlertTime = alerts[1].at
  /\ accepted[2].ts - lastAlertTime = 130 * 1000

(* C19: a reset for scope X clears the local state of X only: a Reading    *)
(* accepted for a different scope Y (one the durable store records under   *)
(* Y) that was in the history before the reset of X is still in it after.  *)
C19_ResetScoped ==
  [][\A s \in DOMAIN proc :
       (ResetAnswered(s) /\ deletes'.ok = deletes.ok + 1) =>
         \A y \in Scopes \ {proc[s].id} :
           \A e \in StoredFor(y) :
             (\E i \in 1..Len(history) : history[i] = e) =>
               (\E i \in 1..Len(history') : history'[i] = e)]_vars

\* What a subscriber holds after the messages box[i..]: start from the
\* history dump, append each reading and drop the oldest beyond 50, empty on
\* reset
RECURSIVE Replay(_, _, _)
Replay(box, i, view) ==
  IF i > Len(box) THEN view
  ELSE Replay(box, i + 1,
              CASE box[i].type = "history" -> box[i].data
                [] box[i].type = "reading" -> LastN(Append(view, box[i].data), 50)
                [] box[i].type = "reset" -> << >>)

(* C20: for every subscriber whose channel is open, in every reachable     *)
(* state and under any interleaving of connects, ingests and resets,       *)
(* replaying its received messages yields exactly the server's current     *)
(* history cache: the catch-up dump is a whole history, and no Reading is  *)
(* missed or delivered twice around the moment of connection.              *)
C20_ViewConsistent ==
  \A c \in DOMAIN clients :
    clients[c].state = "open" =>
      /\ Replay(clients[c].inbox, 1, << >>) = history
      /\ \A i \in 1..Len(history) - 1 : history[i].seq < history[i + 1].seq

\* The subscriber connected when the history held 50 Readings and then
\* received the 51st: its replay dropped the oldest, as the server did
C20_Witness ==
  /\ clients[1].state = "open"
  /\ Len(clients[1].inbox) = 2
  /\ Len(clients[1].inbox[1].data) = 50
  /\ clients[1].inbox[2].type = "reading"
  /\ Len(history) = 50
  /\ history[1] = clients[1].inbox[1].data[2]
  /\ history[50] = clients[1].inbox[2].data
  /\ history[50].seq = 51

(* C21: after any sequence of geolocated ingests handled one at a time for *)
(* a scope, the durable store available, any two distinct Pins of the      *)
(* scope are more than 25 m apart: updating a matched Pin never brings it  *)
(* within the proximity radius of another Pin.                             *)
C21_PinSeparation ==
  LET pins == PinsOf(db)
  IN  \A i \in 1..Len(pins), j \in 1..Len(pins) :
        i # j => PinDist(pins[i].e, pins, j) > 25 * 1000

=============================================================================
